---- MODULE Spec2Model ----
(***************************************************************************)
(* The Earley parser of earley_parser.py over the grammars of grammar.py.  *)
(*                                                                         *)
(* One behaviour is one EarleyParser and the calls of its parse on one     *)
(* token sequence: the grammar and the words are drawn in Init, Parse      *)
(* builds and seeds the chart, Predict, Scan and Complete process one      *)
(* state of the agenda being traversed, NextPosition moves the outer loop  *)
(* on and Return builds the trees; Parse may then be called again.         *)
(*                                                                         *)
(* Encoding of the Python values:                                          *)
(*  - a Rule is a record lhs, rhs, preterminal, probability;               *)
(*  - a State is a record rule, span_start, span_stop, dot_position,       *)
(*    previous_states (a sequence of States, nested);                      *)
(*  - a Regex object is the string Regex(p); the strings of RegexObjects   *)
(*    are not used as literal symbols or tokens;                           *)
(*  - a tree ['S', t1, t2] is Node("S", <<t1, t2>>) and a token string     *)
(*    'a' inside a tree is Leaf("a");                                      *)
(*  - chart positions are 0-based as in the source; TLA+ sequences are     *)
(*    1-based, so position p is element p + 1.                             *)
(***************************************************************************)
EXTENDS Integers, Sequences, FiniteSets, TLC

\* Longest token sequence handed to parse.
MaxTokens == 3

\* Largest agenda the model lets a parse build before it stops following it
\* (a parse that outgrows it has run out of the resources of the model).
MaxAgenda == 26

\* How many times parse is called on one EarleyParser.
MaxCalls == 2

_GAMMA == "_GAMMA"

-----------------------------------------------------------------------------
(* grammar.py *)

Rule(lhs, rhs, preterminal, probability) ==
    [lhs |-> lhs, rhs |-> rhs, preterminal |-> preterminal,
     probability |-> probability]

\* Rule.__eq__: the probability is not compared.
RuleEq(self, other) ==
    /\ self.lhs = other.lhs
    /\ self.rhs = other.rhs
    /\ self.preterminal = other.preterminal

Grammar(rules, distinguished_symbol) ==
    [_grammar |-> rules, _distinguished_symbol |-> distinguished_symbol]

Regex(regex) == "re:" \o regex

RegexObjects == {Regex("a")}

IsRegex(x) == x \in RegexObjects

\* re.compile(p).match(token): the pattern matches a prefix of the token.
RegexMatch(self, other) ==
    /\ self = Regex("a")
    /\ other \in {"a", "ab"}

-----------------------------------------------------------------------------
(* earley_parser.py: State *)

State(rule, span_start, span_stop, dot_position, previous_states) ==
    [rule |-> rule, span_start |-> span_start, span_stop |-> span_stop,
     dot_position |-> dot_position, previous_states |-> previous_states]

incomplete(self) == self.dot_position < Len(self.rule.rhs)

next_category(self) ==
    IF incomplete(self) THEN self.rule.rhs[self.dot_position + 1] ELSE ""

\* State.__eq__: structural, through previous_states.
RECURSIVE StateEq(_, _)
StateEq(self, other) ==
    /\ RuleEq(self.rule, other.rule)
    /\ self.span_start = other.span_start
    /\ self.span_stop = other.span_stop
    /\ self.dot_position = other.dot_position
    /\ Len(self.previous_states) = Len(other.previous_states)
    /\ \A k \in 1..Len(self.previous_states) :
           StateEq(self.previous_states[k], other.previous_states[k])

-----------------------------------------------------------------------------
(* earley_parser.py: EarleyChart *)

EarleyChart(sentence) ==
    [sentence |-> sentence,
     _chart |-> [p \in 1..(Len(sentence) + 1) |-> <<>>]]

\* chart[index], for a position of the chart
Agenda(ch, index) == ch._chart[index + 1]

\* "state in agenda" by the identity of the object, not by State.__eq__.
InAgendaByIdentity(state, agenda) ==
    \E k \in 1..Len(agenda) : agenda[k] = state

\* "state in agenda": list membership, by State.__eq__.
InAgenda(state, agenda) ==
    \E k \in 1..Len(agenda) : StateEq(agenda[k], state)

\* list[index] of Python, for a list of n items: the 1-based place of the
\* item, counted from the end for a negative index, and whether IndexError.
ListIndexRaises(n, index) == index >= n \/ index < -n
ListIndex(n, index) == IF index >= 0 THEN index + 1 ELSE n + index + 1

\* chart[index]: EarleyChartIndexError exactly when the list raises.
__getitem__Raises(ch, index) == ListIndexRaises(Len(ch._chart), index)
__getitem__(ch, index) == ch._chart[ListIndex(Len(ch._chart), index)]

\* An enqueue that puts the state in front of the agenda.
enqueue_in_front(ch, state, position) ==
    IF InAgenda(state, ch._chart[position + 1]) THEN ch
    ELSE [ch EXCEPT !._chart[position + 1] = <<state>> \o @]

enqueue(ch, state, position) ==
    IF InAgenda(state, Agenda(ch, position))
    THEN ch
    ELSE [ch EXCEPT !._chart[position + 1] = Append(@, state)]

-----------------------------------------------------------------------------
(* The inputs of one parse *)

VARIABLES
    grammar,   \* the Grammar the EarleyAlgorithm was built with (self._grammar)
    words,     \* the argument of parse
    chart,     \* the EarleyChart of this parse
    i,         \* the position the outer loop of parse is at
    j,         \* how many states of chart[i] the inner loop has taken
    pc,        \* "ready", "loop", "scan", "done", "raised", "exhausted"
    result,    \* the list parse returned
    raised,    \* the exception parse raised, "" for none
    calls,     \* how many calls of parse this EarleyParser has had
    previous,  \* what the call before this one returned or raised
    call,      \* the last call made on an EarleyChart used on its own
    invocation,\* the locals of each of two parse invocations on one grammar
    charts,    \* the chart of each of the two invocations
    processed  \* the steps this call of parse has taken on states, in order

vars ==
    <<grammar, words, chart, i, j, pc, result, raised, calls, previous, call,
      invocation, charts, processed>>

-----------------------------------------------------------------------------
(* earley_parser.py: EarleyAlgorithm *)

\* ''.join(rhs) of literal strings.
RECURSIVE Join(_)
Join(rhs) == IF rhs = <<>> THEN "" ELSE Head(rhs) \o Join(Tail(rhs))

\* ''.join(rhs) raises TypeError when an item of rhs is not a str.
JoinRaises(rhs) == \E k \in 1..Len(rhs) : IsRegex(rhs[k])

_grammar_rules_for(lhs) ==
    SelectSeq(grammar._grammar, LAMBDA rule : lhs = rule.lhs)

\* chart.enqueue of each state of a sequence, in order, at one position.
RECURSIVE EnqueueAll(_, _, _)
EnqueueAll(ch, states, position) ==
    IF states = <<>> THEN ch
    ELSE EnqueueAll(enqueue(ch, Head(states), position), Tail(states), position)

\* A prediction that takes the preterminal rules too.
_predict_every_rule(state, ch) ==
    LET rules == _grammar_rules_for(next_category(state))
        new   == [k \in 1..Len(rules) |->
                     State(rules[k], state.span_stop, state.span_stop, 0, <<>>)]
    IN  EnqueueAll(ch, new, state.span_stop)

_predict(state, ch) ==
    LET rules == SelectSeq(_grammar_rules_for(next_category(state)),
                           LAMBDA rule : ~rule.preterminal)
        new   == [k \in 1..Len(rules) |->
                     State(rules[k], state.span_stop, state.span_stop, 0, <<>>)]
    IN  EnqueueAll(ch, new, state.span_stop)

\* The conjuncts before ''.join in _is_applicable_preterminal: the join is
\* evaluated exactly when they hold.
ReachesJoin(rule, state, ch) ==
    /\ ~(state.span_stop >= Len(ch.sentence))
    /\ rule.preterminal
    /\ rule.lhs = next_category(state)

_is_applicable_preterminal(rule, state, ch) ==
    /\ ReachesJoin(rule, state, ch)
    /\ Join(rule.rhs) = ch.sentence[state.span_stop + 1]

\* _scan raises the TypeError of ''.join at the first rule that reaches the
\* join with a Regex in its rhs; no earlier rule ends the loop.
ScanRaises(state, ch) ==
    \E k \in 1..Len(grammar._grammar) :
        /\ ReachesJoin(grammar._grammar[k], state, ch)
        /\ JoinRaises(grammar._grammar[k].rhs)

_scan(state, ch) ==
    LET rules == SelectSeq(grammar._grammar,
                           LAMBDA rule : _is_applicable_preterminal(rule, state, ch))
        new   == [k \in 1..Len(rules) |->
                     State(rules[k], state.span_stop, state.span_stop + 1, 1, <<>>)]
    IN  EnqueueAll(ch, new, state.span_stop + 1)

\* The loop of _complete from its k-th candidate on. The agenda it reads is
\* read again at every step: when state.span_start = state.span_stop the
\* states it appends are candidates too.
RECURSIVE CompleteFrom(_, _, _)
CompleteFrom(state, ch, k) ==
    IF \/ k > Len(Agenda(ch, state.span_start))
       \/ Len(Agenda(ch, state.span_stop)) > MaxAgenda
    THEN ch
    ELSE LET candidate_state == Agenda(ch, state.span_start)[k]
         IN  CompleteFrom(
                 state,
                 IF /\ next_category(candidate_state) = state.rule.lhs
                    /\ candidate_state.span_stop = state.span_start
                 THEN enqueue(ch,
                              State(candidate_state.rule,
                                    candidate_state.span_start,
                                    state.span_stop,
                                    candidate_state.dot_position + 1,
                                    Append(candidate_state.previous_states, state)),
                              state.span_stop)
                 ELSE ch,
                 k + 1)

\* A completion that enqueues the advanced states where the completed state
\* starts, in the agenda of the candidates.
_complete_at_start(state, ch) ==
    LET from    == Agenda(ch, state.span_start)
        waiting == SelectSeq(from, LAMBDA candidate_state :
                       /\ next_category(candidate_state) = state.rule.lhs
                       /\ candidate_state.span_stop = state.span_start)
        new     == [k \in 1..Len(waiting) |->
                       State(waiting[k].rule, waiting[k].span_start, state.span_stop,
                             waiting[k].dot_position + 1,
                             Append(waiting[k].previous_states, state))]
    IN  EnqueueAll(ch, new, state.span_start)

\* A completion that advances the dot of the candidates where they are.
_complete_in_place(state, ch) ==
    LET from == Agenda(ch, state.span_start)
    IN  [ch EXCEPT !._chart[state.span_start + 1] =
            [k \in 1..Len(from) |->
                IF /\ next_category(from[k]) = state.rule.lhs
                   /\ from[k].span_stop = state.span_start
                THEN [from[k] EXCEPT
                         !.span_stop = state.span_stop,
                         !.dot_position = from[k].dot_position + 1,
                         !.previous_states = Append(from[k].previous_states, state)]
                ELSE from[k]]]

_complete(state, ch) == CompleteFrom(state, ch, 1)

\* A tree: a list [label, child, ...] is a Node, a token string is a Leaf.
Node(label, children) == [label |-> label, leaf |-> FALSE, children |-> children]
Leaf(token) == [label |-> token, leaf |-> TRUE, children |-> <<>>]

\* sorted(states, key=lambda s: s.span_start): stable.
RECURSIVE Sorted(_)
Sorted(states) ==
    IF states = <<>> THEN <<>>
    ELSE LET rest  == Sorted(SubSeq(states, 1, Len(states) - 1))
             last  == states[Len(states)]
             front == SelectSeq(rest, LAMBDA s : s.span_start <= last.span_start)
             back  == SelectSeq(rest, LAMBDA s : s.span_start > last.span_start)
         IN  front \o <<last>> \o back

RECURSIVE _tree_from_parse(_)
_tree_from_parse(state) ==
    IF state.rule.preterminal
    THEN Node(state.rule.lhs, <<Leaf(Join(state.rule.rhs))>>)
    ELSE LET contributors == Sorted(state.previous_states)
         IN  Node(state.rule.lhs,
                  [k \in 1..Len(contributors) |-> _tree_from_parse(contributors[k])])

\* _full_parses without its test of state.incomplete.
_full_parses_of_any_progress(ch) ==
    SelectSeq(Agenda(ch, Len(ch._chart) - 1),
              LAMBDA state : state.rule.lhs = _GAMMA)

_full_parses(ch) ==
    SelectSeq(Agenda(ch, Len(ch._chart) - 1),
              LAMBDA state : ~incomplete(state) /\ state.rule.lhs = _GAMMA)

\* The seed for the symbol 'S', whatever the distinguished symbol is.
AugmentingStateForS ==
    State(Rule(_GAMMA, <<"S">>, FALSE, 1), 0, 0, 0, <<>>)

\* The state parse seeds the chart with.
AugmentingState ==
    State(Rule(_GAMMA, <<grammar._distinguished_symbol>>, FALSE, 1), 0, 0, 0, <<>>)

\* The tree of the augmenting state, returned as it is.
UnwrapNothing(tree) == tree

\* _tree_from_parse(p)[1] of the return statement.
Unwrap(tree) == tree.children[1]

\* [1] raises IndexError on a list of one element.
UnwrapRaises(tree) == Len(tree.children) = 0

\* A list that outlives the call and collects the trees of every call.
ReturnedOntoPrevious(trees) ==
    previous.result \o [k \in 1..Len(trees) |-> Unwrap(trees[k])]

\* The list parse returns: a new list, built by the comprehension.
Returned(trees) == [k \in 1..Len(trees) |-> Unwrap(trees[k])]

-----------------------------------------------------------------------------
(* The grammars and token sequences the parser is run on *)

R(lhs, rhs) == Rule(lhs, rhs, FALSE, 1)
P(lhs, rhs) == Rule(lhs, rhs, TRUE, 1)

\* The grammars of the tests and of the shapes a grammar can take.
NamedGrammars == {
    \* the grammar of the module docstring and of test_parse
    Grammar(<<R("S", <<"VP">>), R("VP", <<"V", "NP">>), R("NP", <<"Det", "Nominal">>),
              P("Det", <<"b">>), P("Nominal", <<"ab">>), P("V", <<"a">>)>>, "S"),
    \* test_multiple_parses, shortened: a word that is both N and V
    Grammar(<<P("N", <<"a">>), P("V", <<"b">>), P("N", <<"b">>),
              R("S", <<"N", "V">>), R("S", <<"N", "N">>)>>, "S"),
    \* structural ambiguity
    Grammar(<<R("S", <<"S", "S">>), P("S", <<"a">>)>>, "S"),
    \* left recursion
    Grammar(<<R("S", <<"S", "A">>), P("S", <<"a">>), P("A", <<"b">>)>>, "S"),
    \* a unit cycle
    Grammar(<<R("S", <<"S">>), P("S", <<"a">>)>>, "S"),
    \* test_no_parses, test_empty_words
    Grammar(<<P("N", <<"a">>)>>, "S"),
    \* test_empty_grammar, and with distinguished_symbol overridden
    Grammar(<<>>, "S"),
    Grammar(<<>>, "P"),
    \* test_regex_rule
    Grammar(<<P("S", <<Regex("a")>>)>>, "S"),
    \* test_programming_language_parsing, shortened
    Grammar(<<R("program", <<"variable", "value">>),
              P("variable", <<Regex("a")>>), P("value", <<"b">>)>>, "program"),
    \* a Regex rule for a category the parse never scans for
    Grammar(<<P("X", <<Regex("a")>>), P("S", <<"a">>)>>, "S"),
    \* distinguished_symbol overridden, with rules for "S" too
    Grammar(<<R("P", <<"A", "S">>), P("A", <<"a">>), P("S", <<"b">>)>>, "P"),
    \* an empty right-hand side that is predicted after it was completed
    Grammar(<<R("S", <<"A", "B">>), R("B", <<"A">>), R("A", <<>>)>>, "S"),
    \* a preterminal rule of two items, joined to one token
    Grammar(<<R("S", <<"N">>), P("N", <<"a", "b">>), P("b", <<"a">>)>>, "S"),
    \* a preterminal rule of no item, joined to the empty token
    Grammar(<<R("S", <<"A", "E">>), P("A", <<"a">>), P("E", <<>>)>>, "S"),
    \* equal rules, with different probabilities
    Grammar(<<R("S", <<"A">>), Rule("S", <<"A">>, FALSE, 2),
              P("A", <<"a">>), Rule("A", <<"a">>, TRUE, 2)>>, "S"),
    \* a user rule for the label of the augmenting rule
    Grammar(<<R("S", <<"A", _GAMMA>>), P("A", <<"b">>), P(_GAMMA, <<"a">>)>>, "S"),
    \* a user rule for that label with an empty right-hand side
    Grammar(<<R("S", <<"A", _GAMMA>>), P("A", <<"a">>), R(_GAMMA, <<>>)>>, "S"),
    \* the empty string as a category: next_category of a complete state
    Grammar(<<R("", <<"A", "B">>), R("A", <<>>), P("B", <<"b">>)>>, ""),
    \* two preterminal rules that join to the same token, the empty one
    Grammar(<<P("S", <<>>), P("S", <<"">>)>>, "S")
}

\* The rules the other grammars are made of.
RulePool == <<
    R("S", <<"A">>), R("S", <<"A", "S">>), R("S", <<>>),
    R("A", <<"S">>), R("A", <<"A", "A">>), R("A", <<>>),
    P("S", <<"a">>), P("A", <<"a">>), P("A", <<"b">>), P("A", <<Regex("a")>>) >>

\* Most rules a grammar made from RulePool has.
MaxRules == 3

\* The rules of RulePool at the indices of a set, in the order of RulePool.
RECURSIVE PoolRules(_)
PoolRules(indices) ==
    IF indices = {} THEN <<>>
    ELSE LET last == CHOOSE k \in indices : \A m \in indices : m <= k
         IN  Append(PoolRules(indices \ {last}), RulePool[last])

PoolGrammars ==
    {Grammar(PoolRules(indices), "S") :
        indices \in {T \in SUBSET (1..Len(RulePool)) : Cardinality(T) <= MaxRules}}

Grammars == NamedGrammars \cup PoolGrammars

\* The tokens a grammar is tried on: "a" and "b", and every token one of its
\* preterminal rules is written for ("b" or "ab" is then a token of no rule).
Alphabet(g) ==
    {"a", "b"}
    \cup {Join(g._grammar[k].rhs) :
            k \in {m \in 1..Len(g._grammar) :
                     g._grammar[m].preterminal /\ ~JoinRaises(g._grammar[m].rhs)}}
    \cup (IF \E k \in 1..Len(g._grammar) : JoinRaises(g._grammar[k].rhs)
          THEN {"ab"} ELSE {})

WordsOver(alphabet) == UNION {[1..n -> alphabet] : n \in 0..MaxTokens}

-----------------------------------------------------------------------------
(* EarleyParser.parse, one step at a time *)

Init ==
    /\ grammar \in Grammars
    /\ words \in WordsOver(Alphabet(grammar))
    /\ chart = EarleyChart(<<>>)
    /\ i = 0
    /\ j = 0
    /\ pc = "ready"
    /\ result = <<>>
    /\ raised = ""
    /\ calls = 0
    /\ previous = [result |-> <<>>, raised |-> ""]
    /\ call = [op |-> "none"]
    /\ invocation = <<>>
    /\ charts = <<>>
    /\ processed = <<>>

\* parse, up to the loop: a new chart is built and seeded. The call is the
\* first one of this EarleyParser, or follows one that returned or raised.
Parse ==
    /\ \/ pc = "ready"
       \/ pc \in {"done", "raised"} /\ calls < MaxCalls
    /\ chart' = enqueue(EarleyChart(words), AugmentingState, 0)
    /\ i' = 0
    /\ j' = 0
    /\ pc' = "loop"
    /\ result' = <<>>
    /\ raised' = ""
    /\ calls' = calls + 1
    /\ previous' = [result |-> result, raised |-> raised]
    /\ processed' = <<>>
    /\ UNCHANGED <<grammar, words, call, invocation, charts>>

\* A step of the loop on the state it is at, as processed records it.
Taken(step) ==
    [position |-> i, state |-> Agenda(chart, i)[j + 1], step |-> step]

\* The inner loop has a next state to take, and the model follows it.
HasNext ==
    /\ pc = "loop"
    /\ j < Len(Agenda(chart, i))
    /\ Len(Agenda(chart, i)) <= MaxAgenda

Predict ==
    /\ HasNext
    /\ incomplete(Agenda(chart, i)[j + 1])
    /\ chart' = _predict(Agenda(chart, i)[j + 1], chart)
    /\ pc' = "scan"
    /\ processed' = Append(processed, Taken("predict"))
    /\ UNCHANGED <<grammar, words, i, j, result, raised, calls, previous, call,
                   invocation, charts>>

Scan ==
    /\ pc = "scan"
    /\ IF ScanRaises(Agenda(chart, i)[j + 1], chart)
       THEN /\ pc' = "raised"
            /\ raised' = "TypeError"
            /\ UNCHANGED <<chart, j, processed>>
       ELSE /\ chart' = _scan(Agenda(chart, i)[j + 1], chart)
            /\ j' = j + 1
            /\ pc' = "loop"
            /\ processed' = Append(processed, Taken("scan"))
            /\ UNCHANGED raised
    /\ UNCHANGED <<grammar, words, i, result, calls, previous, call,
                   invocation, charts>>

Complete ==
    /\ HasNext
    /\ ~incomplete(Agenda(chart, i)[j + 1])
    /\ chart' = _complete(Agenda(chart, i)[j + 1], chart)
    /\ j' = j + 1
    /\ processed' = Append(processed, Taken("complete"))
    /\ UNCHANGED <<grammar, words, i, pc, result, raised, calls, previous, call,
                   invocation, charts>>

\* An inner loop that may leave chart[i] once it has taken one state of it.
NextPositionOfSnapshot ==
    /\ pc = "loop"
    /\ j >= 1
    /\ i < Len(words)
    /\ i' = i + 1
    /\ j' = 0
    /\ UNCHANGED <<grammar, words, chart, pc, result, raised, calls, previous,
                   call, invocation, charts, processed>>

\* chart[i] is exhausted: the outer loop takes the next position.
NextPosition ==
    /\ pc = "loop"
    /\ j >= Len(Agenda(chart, i))
    /\ i < Len(words)
    /\ i' = i + 1
    /\ j' = 0
    /\ UNCHANGED <<grammar, words, chart, pc, result, raised, calls, previous, call,
                   invocation, charts, processed>>

\* The return statement of parse.
Return ==
    /\ pc = "loop"
    /\ j >= Len(Agenda(chart, i))
    /\ i = Len(words)
    /\ LET parses == _full_parses(chart)
           trees  == [k \in 1..Len(parses) |-> _tree_from_parse(parses[k])]
       IN  IF \E k \in 1..Len(trees) : UnwrapRaises(trees[k])
           THEN /\ pc' = "raised"
                /\ raised' = "IndexError"
                /\ UNCHANGED result
           ELSE /\ pc' = "done"
                /\ result' = Returned(trees)
                /\ UNCHANGED raised
    /\ UNCHANGED <<grammar, words, chart, i, j, calls, previous, call,
                   invocation, charts, processed>>

\* The agenda being traversed has outgrown MaxAgenda: the model leaves the
\* parse here, still running (CPython runs on until the recursion limit of
\* State.__eq__ or the memory ends it).
Exhaust ==
    /\ pc = "loop"
    /\ j < Len(Agenda(chart, i))
    /\ Len(Agenda(chart, i)) > MaxAgenda
    /\ pc' = "exhausted"
    /\ UNCHANGED <<grammar, words, chart, i, j, result, raised, calls, previous, call,
                   invocation, charts, processed>>

Next ==
    \/ Parse
    \/ Predict
    \/ Scan
    \/ Complete
    \/ NextPosition
    \/ Return
    \/ Exhaust

Spec == Init /\ [][Next]_vars

-----------------------------------------------------------------------------
(* An EarleyChart used on its own: enqueue and chart[index] from outside *)

\* Longest sentence of such a chart, and the most states one agenda is given.
MaxSentence == 2
MaxQueued == 2

\* The indices chart[index] is asked for: every position, and the integers
\* on both sides of them.
Indices(ch) == (0 - Len(ch._chart) - 2)..(Len(ch._chart) + 2)

\* The states enqueued: two objects that are equal by State.__eq__ (their
\* rules differ in probability only, at the top and in previous_states), and
\* one that differs from them in previous_states only.
ChartStates ==
    LET scanned == State(P("A", <<"a">>), 0, 1, 1, <<>>)
        again   == State(Rule("A", <<"a">>, TRUE, 2), 0, 1, 1, <<>>)
    IN  { State(R("S", <<"A">>), 0, 1, 1, <<scanned>>),
          State(Rule("S", <<"A">>, FALSE, 2), 0, 1, 1, <<again>>),
          State(R("S", <<"A">>), 0, 1, 1, <<>>) }

InitChart ==
    /\ grammar = Grammar(<<>>, "S")
    /\ words \in {w \in WordsOver({"a"}) : Len(w) <= MaxSentence}
    /\ chart = EarleyChart(words)
    /\ i = 0
    /\ j = 0
    /\ pc = "chart"
    /\ result = <<>>
    /\ raised = ""
    /\ calls = 0
    /\ previous = [result |-> <<>>, raised |-> ""]
    /\ call = [op |-> "none"]
    /\ invocation = <<>>
    /\ charts = <<>>
    /\ processed = <<>>

\* chart.enqueue(state, position), at a position of the chart.
Enqueue ==
    \E state \in ChartStates, position \in 0..Len(words) :
        /\ Len(Agenda(chart, position)) < MaxQueued
        /\ chart' = enqueue(chart, state, position)
        /\ call' = [op |-> "enqueue", state |-> state, position |-> position]
        /\ UNCHANGED <<grammar, words, i, j, pc, result, raised, calls, previous,
                       invocation, charts, processed>>

\* chart[index], for an integer in or out of range.
GetItem ==
    \E index \in Indices(chart) :
        /\ call' = IF __getitem__Raises(chart, index)
                   THEN [op |-> "__getitem__", index |-> index,
                         raised |-> "EarleyChartIndexError", agenda |-> <<>>]
                   ELSE [op |-> "__getitem__", index |-> index,
                         raised |-> "", agenda |-> __getitem__(chart, index)]
        /\ UNCHANGED <<grammar, words, chart, i, j, pc, result, raised, calls,
                       previous, invocation, charts, processed>>

NextChart ==
    \/ Enqueue
    \/ GetItem

SpecChart == InitChart /\ [][NextChart]_vars

-----------------------------------------------------------------------------
(* Two invocations of parse on one EarleyAlgorithm, interleaved *)

\* The locals of an invocation of parse that has not taken a step yet.
Invocation(sentence) ==
    [words |-> sentence, i |-> 0, j |-> 0, pc |-> "ready",
     result |-> <<>>, raised |-> ""]

\* One step of parse as a function of the locals of the invocation and the
\* chart it works on: the step Parse, Predict, Scan, Complete, NextPosition,
\* Return or Exhaust takes in the same place.
StepOf(inv, ch) ==
    IF inv.pc = "ready"
    THEN [inv   |-> [inv EXCEPT !.pc = "loop"],
          chart |-> enqueue(EarleyChart(inv.words), AugmentingState, 0)]
    ELSE IF inv.pc = "scan"
    THEN LET state == Agenda(ch, inv.i)[inv.j + 1]
         IN  IF ScanRaises(state, ch)
             THEN [inv   |-> [inv EXCEPT !.pc = "raised", !.raised = "TypeError"],
                   chart |-> ch]
             ELSE [inv   |-> [inv EXCEPT !.pc = "loop", !.j = inv.j + 1],
                   chart |-> _scan(state, ch)]
    ELSE IF inv.j < Len(Agenda(ch, inv.i))
    THEN LET state == Agenda(ch, inv.i)[inv.j + 1]
         IN  IF Len(Agenda(ch, inv.i)) > MaxAgenda
             THEN [inv |-> [inv EXCEPT !.pc = "exhausted"], chart |-> ch]
             ELSE IF incomplete(state)
             THEN [inv |-> [inv EXCEPT !.pc = "scan"], chart |-> _predict(state, ch)]
             ELSE [inv   |-> [inv EXCEPT !.j = inv.j + 1],
                   chart |-> _complete(state, ch)]
    ELSE IF inv.i < Len(inv.words)
    THEN [inv |-> [inv EXCEPT !.i = inv.i + 1, !.j = 0], chart |-> ch]
    ELSE LET parses == _full_parses(ch)
             trees  == [k \in 1..Len(parses) |-> _tree_from_parse(parses[k])]
         IN  IF \E k \in 1..Len(trees) : UnwrapRaises(trees[k])
             THEN [inv   |-> [inv EXCEPT !.pc = "raised", !.raised = "IndexError"],
                   chart |-> ch]
             ELSE [inv   |-> [inv EXCEPT !.pc = "done", !.result = Returned(trees)],
                   chart |-> ch]

\* parse run from an invocation to its end, with nothing else running.
RECURSIVE RunAlone(_, _)
RunAlone(inv, ch) ==
    IF inv.pc \in {"done", "raised", "exhausted"} THEN inv
    ELSE LET next == StepOf(inv, ch) IN RunAlone(next.inv, next.chart)

\* Longest token sequence handed to each of the two invocations.
MaxSharedTokens == 2

Invocations == {1, 2}

\* An EarleyAlgorithm that keeps one chart for all its invocations.
OneChartForAll(p) == 1

\* The chart an invocation works on: the local variable chart of its own
\* call of parse.
ChartOf(p) == p

\* The grammars the two invocations share.
SharedGrammars == {
    Grammar(<<R("S", <<"S", "S">>), P("S", <<"a">>)>>, "S"),
    Grammar(<<P("N", <<"a">>), P("V", <<"b">>), P("N", <<"b">>),
              R("S", <<"N", "V">>), R("S", <<"N", "N">>)>>, "S"),
    Grammar(<<R("S", <<"A", "S">>), R("S", <<>>), P("A", <<Regex("a")>>)>>, "S")
}

InitTwo ==
    /\ grammar \in SharedGrammars
    /\ invocation \in
          [Invocations ->
              {Invocation(w) : w \in {v \in WordsOver({"a", "b"}) :
                                         Len(v) <= MaxSharedTokens}}]
    /\ charts = [p \in Invocations |-> EarleyChart(<<>>)]
    /\ words = <<>>
    /\ chart = EarleyChart(<<>>)
    /\ i = 0
    /\ j = 0
    /\ pc = "two"
    /\ result = <<>>
    /\ raised = ""
    /\ calls = 0
    /\ previous = [result |-> <<>>, raised |-> ""]
    /\ call = [op |-> "none"]
    /\ processed = <<>>

\* One invocation takes its next step; the other one stays where it is.
StepTwo ==
    \E p \in Invocations :
        /\ invocation[p].pc \notin {"done", "raised", "exhausted"}
        /\ LET next == StepOf(invocation[p], charts[ChartOf(p)])
           IN  /\ invocation' = [invocation EXCEPT ![p] = next.inv]
               /\ charts' = [charts EXCEPT ![ChartOf(p)] = next.chart]
        /\ UNCHANGED <<grammar, words, chart, i, j, pc, result, raised, calls,
                       previous, call, processed>>

NextTwo == StepTwo

SpecTwo == InitTwo /\ [][NextTwo]_vars

-----------------------------------------------------------------------------
(* A grammar that gets one more rule between two calls of parse *)

\* Grammar.add_rule: the rule goes to the end of the list.
add_rule(self, rule) == [self EXCEPT !._grammar = Append(@, rule)]

\* The probabilities a rule is added with.
Probabilities == {1, 2}

\* The rules handed to add_rule: every rule of RulePool and every rule of
\* the grammar, with each probability.
AddableRules(g) ==
    {[rule EXCEPT !.probability = probability] :
        rule \in {RulePool[k] : k \in 1..Len(RulePool)}
                 \cup {g._grammar[k] : k \in 1..Len(g._grammar)},
        probability \in Probabilities}

InitAdd ==
    /\ grammar \in Grammars
    /\ words \in {w \in WordsOver(Alphabet(grammar)) : Len(w) <= MaxSharedTokens}
    /\ invocation = <<>>
    /\ call = [op |-> "none"]
    /\ pc = "grammar"
    /\ chart = EarleyChart(<<>>)
    /\ charts = <<>>
    /\ i = 0
    /\ j = 0
    /\ result = <<>>
    /\ raised = ""
    /\ calls = 0
    /\ previous = [result |-> <<>>, raised |-> ""]
    /\ processed = <<>>

\* parser.parse(words), from the call to its end: the first call, and the
\* one after add_rule.
ParseWhole ==
    /\ pc = "grammar"
    /\ \/ invocation = <<>>
       \/ Len(invocation) = 1 /\ call.op = "add_rule"
    /\ invocation' = Append(invocation, RunAlone(Invocation(words), EarleyChart(<<>>)))
    /\ UNCHANGED <<grammar, words, chart, i, j, pc, result, raised, calls,
                   previous, call, charts, processed>>

\* grammar.add_rule(rule), between the two calls.
AddRule ==
    /\ pc = "grammar"
    /\ Len(invocation) = 1
    /\ call.op = "none"
    /\ \E rule \in AddableRules(grammar) :
          /\ grammar' = add_rule(grammar, rule)
          /\ call' = [op |-> "add_rule", rule |-> rule]
    /\ UNCHANGED <<words, chart, i, j, pc, result, raised, calls, previous,
                   invocation, charts, processed>>

NextAdd == ParseWhole \/ AddRule

SpecAdd == InitAdd /\ [][NextAdd]_vars

-----------------------------------------------------------------------------
(* C1: termination *)

\* C1: parse terminates for every grammar and token sequence: enqueue drops
\* equal states, so the states enqueued during one parse stay bounded and the
\* loop over the positions reaches its end. No parse keeps enqueuing until an
\* agenda has outgrown MaxAgenda.
C1_ParseTerminates == pc # "exhausted"

-----------------------------------------------------------------------------
(* C2: no exception *)

\* C2: for every grammar whose right-hand sides are literal strings or Regex
\* matchers, and every token sequence, parse raises no exception.
C2_NeverRaises == pc # "raised" /\ raised = ""

-----------------------------------------------------------------------------
(* What a grammar derives, from the rules alone *)

\* Whether a preterminal rule derives one token: its literal is the token, or
\* its pattern matches it.
Accepts(rule, token) ==
    IF JoinRaises(rule.rhs)
    THEN Len(rule.rhs) = 1 /\ RegexMatch(rule.rhs[1], token)
    ELSE Join(rule.rhs) = token

\* The rules of the grammar, each once.
RECURSIVE Distinct(_)
Distinct(rules) ==
    IF rules = <<>> THEN <<>>
    ELSE LET front == Distinct(SubSeq(rules, 1, Len(rules) - 1))
             last  == rules[Len(rules)]
         IN  IF \E k \in 1..Len(front) : RuleEq(front[k], last)
             THEN front ELSE Append(front, last)

Categories ==
    {grammar._distinguished_symbol}
    \cup {grammar._grammar[k].lhs : k \in 1..Len(grammar._grammar)}
    \cup UNION {{grammar._grammar[k].rhs[m] : m \in 1..Len(grammar._grammar[k].rhs)} :
                  k \in {n \in 1..Len(grammar._grammar) : ~grammar._grammar[n].preterminal}}

\* A category over the words from position a to position b.
Spans ==
    {<<c, a, b>> : c \in Categories, a \in 0..Len(words), b \in 0..Len(words)}

\* Counts are kept up to CountCap: no parse of the model returns that many trees.
CountCap == MaxAgenda + 1
Sat(x) == IF x > CountCap THEN CountCap ELSE x

\* The ways the categories of rhs derive the words from a to b, given the
\* number of trees cnt of each category over each span.
RECURSIVE Ways(_, _, _, _)
RECURSIVE WaysFrom(_, _, _, _, _)
Ways(cnt, rhs, a, b) ==
    IF rhs = <<>> THEN (IF a = b THEN 1 ELSE 0)
    ELSE WaysFrom(cnt, rhs, a, b, a)
WaysFrom(cnt, rhs, a, b, c) ==
    IF c > b THEN 0
    ELSE Sat(Sat(cnt[<<Head(rhs), a, c>>] * Ways(cnt, Tail(rhs), c, b))
             + WaysFrom(cnt, rhs, a, b, c + 1))

RECURSIVE TreesOf(_, _, _, _, _)
TreesOf(cnt, rules, c, a, b) ==
    IF rules = <<>> THEN 0
    ELSE LET rule == Head(rules)
             here == IF rule.lhs # c THEN 0
                     ELSE IF rule.preterminal
                          THEN (IF b = a + 1 /\ Accepts(rule, words[b]) THEN 1 ELSE 0)
                          ELSE Ways(cnt, rule.rhs, a, b)
         IN  Sat(here + TreesOf(cnt, Tail(rules), c, a, b))

\* From the number of trees of height at most h, that of height at most h + 1.
Taller(cnt) ==
    [t \in Spans |->
        IF t[2] > t[3] THEN 0
        ELSE TreesOf(cnt, Distinct(grammar._grammar), t[1], t[2], t[3])]

RECURSIVE AllTrees(_)
AllTrees(cnt) ==
    LET next == Taller(cnt) IN IF next = cnt THEN cnt ELSE AllTrees(next)

\* The number of derivation trees (as many as leftmost derivations) of the
\* words from the distinguished symbol, up to CountCap.
Derivations ==
    AllTrees([t \in Spans |-> 0])[<<grammar._distinguished_symbol, 0, Len(words)>>]

\* Every preterminal rule of the grammar has one terminal, a literal string.
LiteralTerminals ==
    \A k \in 1..Len(grammar._grammar) :
        grammar._grammar[k].preterminal =>
            /\ Len(grammar._grammar[k].rhs) = 1
            /\ ~IsRegex(grammar._grammar[k].rhs[1])

\* The token strings of a tree, left to right.
RECURSIVE Leaves(_)
RECURSIVE LeavesOfAll(_)
Leaves(tree) == IF tree.leaf THEN <<tree.label>> ELSE LeavesOfAll(tree.children)
LeavesOfAll(trees) ==
    IF trees = <<>> THEN <<>> ELSE Leaves(Head(trees)) \o LeavesOfAll(Tail(trees))

-----------------------------------------------------------------------------
(* C3, C4, C5: soundness, completeness, no parse *)

\* C3: the leaves of every tree parse returns, read left to right, are the
\* words it was given.
C3_LeavesAreTheWords ==
    pc = "done" => \A k \in 1..Len(result) : Leaves(result[k]) = words

\* C4: for a grammar whose terminals are all literal strings, parse returns
\* as many trees as the words have leftmost derivations from the
\* distinguished symbol (stated where these are fewer than CountCap).
C4_OneTreePerDerivation ==
    (pc = "done" /\ LiteralTerminals /\ Derivations < CountCap) =>
        Len(result) = Derivations

\* C5: when the grammar does not derive the words, parse returns [] and
\* raises nothing.
C5_NoParseIsEmpty ==
    (pc = "raised" \/ (pc = "done" /\ result # <<>>)) => Derivations > 0

-----------------------------------------------------------------------------
(* C6: a pattern as the terminal of a preterminal rule *)

\* C6: the grammar of the one rule S -> <pattern>, parsed against one token,
\* returns [['S', token]] when the pattern matches the token and [] when it
\* does not.
C6_PatternRuleScans ==
    (grammar = Grammar(<<P("S", <<Regex("a")>>)>>, "S") /\ Len(words) = 1) =>
        /\ pc # "raised"
        /\ pc = "done" =>
               result = IF RegexMatch(Regex("a"), words[1])
                        THEN <<Node("S", <<Leaf(words[1])>>)>>
                        ELSE <<>>

-----------------------------------------------------------------------------
(* C7: no words *)

\* C7 as the spec states it: parse([]) returns [] for any grammar.
C7_EmptyInputAnyGrammar ==
    (pc = "done" /\ words = <<>>) => result = <<>>

NoEmptyRhs ==
    \A k \in 1..Len(grammar._grammar) :
        grammar._grammar[k].preterminal \/ grammar._grammar[k].rhs # <<>>

\* C7, amended: for a grammar in which no rule other than a preterminal rule
\* has an empty right-hand side, parse([]) ends, raises nothing and returns
\* []: no state of the chart is complete.
C7_EmptyInput ==
    (words = <<>> /\ NoEmptyRhs /\ pc # "ready") =>
        /\ pc \notin {"raised", "exhausted"}
        /\ \A k \in 1..Len(Agenda(chart, 0)) : incomplete(Agenda(chart, 0)[k])
        /\ pc = "done" => result = <<>>

\* parse([]) has returned for a grammar whose rules were predicted.
C7_Witness ==
    /\ pc = "done"
    /\ words = <<>>
    /\ NoEmptyRhs
    /\ Len(Agenda(chart, 0)) > 2

-----------------------------------------------------------------------------
(* C8: no rules *)

\* C8: for a grammar of no rules and a non-empty token sequence the chart
\* never holds a state other than the seeded augmenting state, and parse
\* returns [].
C8_EmptyGrammar ==
    (grammar._grammar = <<>> /\ words # <<>> /\ pc # "ready") =>
        /\ Agenda(chart, 0) =
               <<[rule |-> [lhs |-> "_GAMMA",
                            rhs |-> <<grammar._distinguished_symbol>>,
                            preterminal |-> FALSE, probability |-> 1],
                  span_start |-> 0, span_stop |-> 0, dot_position |-> 0,
                  previous_states |-> <<>>]>>
        /\ \A p \in 1..Len(words) : Agenda(chart, p) = <<>>
        /\ pc \notin {"raised", "exhausted"}
        /\ pc = "done" => result = <<>>

\* parse has returned for the grammar of no rules, given words.
C8_Witness ==
    /\ pc = "done"
    /\ grammar._grammar = <<>>
    /\ words # <<>>
    /\ result = <<>>

-----------------------------------------------------------------------------
(* C9: the root of a returned tree *)

UsesGamma ==
    \E k \in 1..Len(grammar._grammar) :
        \/ grammar._grammar[k].lhs = _GAMMA
        \/ \E m \in 1..Len(grammar._grammar[k].rhs) : grammar._grammar[k].rhs[m] = _GAMMA

\* The labels and token strings of a tree.
RECURSIVE Labels(_)
Labels(tree) ==
    {tree.label} \cup UNION {Labels(tree.children[k]) : k \in 1..Len(tree.children)}

\* C9: for a grammar in which no rule uses the label _GAMMA, every tree
\* parse returns is a list whose label is the distinguished symbol of the
\* grammar, and _GAMMA is nowhere in it.
C9_RootIsDistinguishedSymbol ==
    (pc = "done" /\ ~UsesGamma) =>
        \A k \in 1..Len(result) :
            /\ ~result[k].leaf
            /\ result[k].label = grammar._distinguished_symbol
            /\ _GAMMA \notin Labels(result[k])

\* parse has returned a tree for a grammar whose distinguished symbol is not
\* the default one.
C9_Witness ==
    /\ pc = "done"
    /\ ~UsesGamma
    /\ grammar._distinguished_symbol # "S"
    /\ result # <<>>

-----------------------------------------------------------------------------
(* C10: the children of a node *)

\* The tree of a state has the shape of its rule: one token string for a
\* preterminal rule, else one list per item of the right-hand side, labelled
\* with that item; and so have the trees of the states it was built from.
RECURSIVE ShapeOfRule(_)
ShapeOfRule(state) ==
    LET tree == _tree_from_parse(state)
    IN  IF state.rule.preterminal
        THEN Len(tree.children) = 1 /\ tree.children[1].leaf
        ELSE /\ Len(tree.children) = Len(state.rule.rhs)
             /\ \A k \in 1..Len(tree.children) :
                    /\ ~tree.children[k].leaf
                    /\ tree.children[k].label = state.rule.rhs[k]
             /\ \A k \in 1..Len(state.previous_states) :
                    ShapeOfRule(state.previous_states[k])

\* C10: in every tree parse returns, the node of a rule that is not
\* preterminal has one child per item of its right-hand side, labelled with
\* the items in their order, and the node of a preterminal rule has one
\* child, a token string.
C10_ChildrenFollowRhs ==
    pc = "done" =>
        \A k \in 1..Len(_full_parses(chart)) :
            LET p == _full_parses(chart)[k]
            IN  ~p.rule.preterminal =>
                    ShapeOfRule(Sorted(p.previous_states)[1])

-----------------------------------------------------------------------------
(* C11 *)

\* C11: a call of parse that follows another call on the same EarleyParser
\* with the same words ends as the call before it did: it returns the same
\* trees in the same order, or raises the same exception.
C11_SameResultEveryCall ==
    (calls >= 2 /\ pc \in {"done", "raised"}) =>
        /\ result = previous.result
        /\ raised = previous.raised

\* A second call has returned an ambiguous parse, two trees or more.
C11_Witness ==
    /\ calls >= 2
    /\ pc = "done"
    /\ Len(result) >= 2
    /\ result[1] # result[2]

-----------------------------------------------------------------------------
(* C12 *)

\* C12: chart[index] returns the agenda of position index for every index
\* in 0..len(tokens), and raises EarleyChartIndexError for every other
\* integer, negative or too large.
C12_OutOfRangeRaises ==
    call.op = "__getitem__" =>
        IF call.index \in 0..Len(words)
        THEN call.raised = "" /\ call.agenda = Agenda(chart, call.index)
        ELSE call.raised = "EarleyChartIndexError"

-----------------------------------------------------------------------------
(* C13 *)

NoEqualStates(ch) ==
    \A p \in 1..Len(ch._chart) :
        \A a, b \in 1..Len(ch._chart[p]) :
            a # b => ~StateEq(ch._chart[p][a], ch._chart[p][b])

\* C13: after every enqueue no agenda holds two states equal by
\* State.__eq__ (rule, span_start, span_stop, dot_position and
\* previous_states), and an enqueue of a state equal to one the agenda of
\* that position holds leaves the whole chart as it was.
C13_AgendasHoldNoEqualStates ==
    [][/\ NoEqualStates(chart')
       /\ (/\ call'.op = "enqueue"
           /\ InAgenda(call'.state, Agenda(chart, call'.position)))
          => chart' = chart]_vars

\* The last enqueue was of an object the agenda does not hold, equal to a
\* state it holds, and the agenda is as short as it was.
C13_Witness ==
    /\ call.op = "enqueue"
    /\ InAgenda(call.state, Agenda(chart, call.position))
    /\ ~InAgendaByIdentity(call.state, Agenda(chart, call.position))
    /\ Len(Agenda(chart, call.position)) = 1

-----------------------------------------------------------------------------
(* C14 *)

\* The actions of Spec take the step StepOf takes.
StepOfIsTheStep ==
    [][LET me   == [words |-> words, i |-> i, j |-> j, pc |-> pc,
                    result |-> result, raised |-> raised]
           next == StepOf(me, chart)
       IN  pc \in {"ready", "loop", "scan"} =>
               /\ next.chart = chart'
               /\ next.inv = [words |-> words', i |-> i', j |-> j', pc |-> pc',
                              result |-> result', raised |-> raised']]_vars

\* C14: of two invocations of parse that share the grammar and are
\* interleaved step by step, each works on the chart of its own words and
\* ends as it ends when run alone, with the same trees in the same order,
\* and no step changes the grammar.
C14_InterleavedAsAlone ==
    [][/\ grammar' = grammar
       /\ \A p \in Invocations :
             /\ invocation'[p].pc # "ready" =>
                    charts'[p].sentence = invocation'[p].words
             /\ invocation'[p].pc \in {"done", "raised", "exhausted"} =>
                    invocation'[p] =
                        RunAlone(Invocation(invocation'[p].words),
                                 EarleyChart(<<>>))]_vars

\* Both invocations have returned, trees of different sentences.
C14_Witness ==
    /\ pc = "two"
    /\ \A p \in Invocations : invocation[p].pc = "done"
    /\ Len(invocation[1].result) >= 2
    /\ invocation[2].result # <<>>
    /\ invocation[1].words # invocation[2].words

-----------------------------------------------------------------------------
(* C15 *)

\* The state the inner loop of parse is at.
Current == Agenda(chart, i)[j + 1]

\* before is a prefix of after.
IsPrefix(before, after) ==
    /\ Len(before) <= Len(after)
    /\ \A k \in 1..Len(before) : after[k] = before[k]

\* The agendas of the chart other than that of one position are unchanged.
OthersUnchanged(position) ==
    /\ chart'.sentence = chart.sentence
    /\ Len(chart'._chart) = Len(chart._chart)
    /\ \A p \in 0..(Len(chart._chart) - 1) :
          p # position => Agenda(chart', p) = Agenda(chart, p)

\* The first place of a rule equal to this one in the grammar.
PlaceInGrammar(rule) ==
    CHOOSE k \in 1..Len(grammar._grammar) :
        /\ RuleEq(grammar._grammar[k], rule)
        /\ \A m \in 1..(k - 1) : ~RuleEq(grammar._grammar[m], rule)

\* C15: _predict on an incomplete state s with next category B appends to
\* the agenda of s.span_stop, in grammar order, one state (R, s.span_stop,
\* s.span_stop, 0, no previous states) for each non-preterminal rule R of
\* lhs B of which the agenda holds no equal state yet; it appends nothing
\* else, and no other agenda changes.
C15_PredictEnqueues ==
    [][(pc = "loop" /\ pc' = "scan") =>
        LET s      == Current
            at     == s.span_stop
            before == Agenda(chart, at)
            after  == Agenda(chart', at)
            added  == (Len(before) + 1)..Len(after)
            fits(rule) == ~rule.preterminal /\ rule.lhs = next_category(s)
        IN  /\ incomplete(s)
            /\ OthersUnchanged(at)
            /\ IsPrefix(before, after)
            /\ \A k \in added :
                  /\ \E m \in 1..Len(grammar._grammar) :
                        /\ fits(grammar._grammar[m])
                        /\ after[k] = State(grammar._grammar[m], at, at, 0, <<>>)
                  /\ ~InAgenda(after[k], SubSeq(after, 1, k - 1))
            /\ \A m \in 1..Len(grammar._grammar) :
                  fits(grammar._grammar[m]) =>
                      InAgenda(State(grammar._grammar[m], at, at, 0, <<>>), after)
            /\ \A k, l \in added :
                  k < l => PlaceInGrammar(after[k].rule) < PlaceInGrammar(after[l].rule)
      ]_vars

\* _predict has acted on a state whose next category has two non-preterminal
\* rules and a preterminal one: the agenda ends with the states of the two.
C15_Witness ==
    /\ pc = "scan"
    /\ LET s     == Current
           at    == s.span_stop
           after == Agenda(chart, at)
           rules == _grammar_rules_for(next_category(s))
       IN  /\ \E k \in 1..Len(rules) : rules[k].preterminal
           /\ \E k, l \in 1..Len(rules) :
                 /\ k < l
                 /\ ~rules[k].preterminal
                 /\ ~rules[l].preterminal
                 /\ Len(after) >= 2
                 /\ after[Len(after) - 1] = State(rules[k], at, at, 0, <<>>)
                 /\ after[Len(after)] = State(rules[l], at, at, 0, <<>>)

-----------------------------------------------------------------------------
(* C16 *)

\* What C16 says of one scan: s is the state scanned from, and the chart
\* goes from chart to chart'.
ScanEnqueues(s) ==
    LET at     == s.span_stop
        before == Agenda(chart, at + 1)
        after  == Agenda(chart', at + 1)
        added  == (Len(before) + 1)..Len(after)
        fits(rule) ==
            /\ rule.preterminal
            /\ rule.lhs = next_category(s)
            /\ Accepts(rule, words[at + 1])
    IN  IF at >= Len(words)
        THEN chart' = chart
        ELSE /\ OthersUnchanged(at + 1)
             /\ IsPrefix(before, after)
             /\ \A k \in added :
                   /\ \E m \in 1..Len(grammar._grammar) :
                         /\ fits(grammar._grammar[m])
                         /\ after[k] = State(grammar._grammar[m], at, at + 1, 1, <<>>)
                   /\ ~InAgenda(after[k], SubSeq(after, 1, k - 1))
             /\ \A m \in 1..Len(grammar._grammar) :
                   fits(grammar._grammar[m]) =>
                       InAgenda(State(grammar._grammar[m], at, at + 1, 1, <<>>),
                                after)

\* C16: _scan on an incomplete state s changes nothing when s.span_stop is
\* len(tokens); otherwise it appends to the agenda of s.span_stop + 1 one
\* state (R, s.span_stop, s.span_stop + 1, 1, no previous states) for each
\* preterminal rule R of lhs s.next_category whose literal is, or whose
\* pattern matches, the token at s.span_stop, and changes no other agenda.
C16_ScanEnqueues ==
    [][pc = "scan" =>
        /\ incomplete(Current)
        /\ pc' = "loop"
        /\ ScanEnqueues(Current)]_vars

\* The same for the scans that reach no pattern: ''.join is given str only.
C16_LiteralScanEnqueues ==
    [][(pc = "scan" /\ ~ScanRaises(Current, chart)) =>
        /\ incomplete(Current)
        /\ pc' = "loop"
        /\ ScanEnqueues(Current)]_vars

-----------------------------------------------------------------------------
(* C17 *)

\* C17: _complete on a complete state s appends to the agenda of
\* s.span_stop, for every state C of the agenda of s.span_start with
\* C.next_category = s.rule.lhs and C.span_stop = s.span_start, the state
\* (C.rule, C.span_start, s.span_stop, C.dot_position + 1, C.previous_states
\* followed by s), unless the agenda holds an equal state; it appends nothing
\* else, and every state the chart held is where it was, unchanged.
C17_CompleteAdvancesCopies ==
    [][(pc = "loop" /\ pc' = "loop" /\ j' = j + 1) =>
        LET s      == Current
            at     == s.span_stop
            before == Agenda(chart, at)
            after  == Agenda(chart', at)
            source == Agenda(chart', s.span_start)
            added  == (Len(before) + 1)..Len(after)
            fits(C) ==
                next_category(C) = s.rule.lhs /\ C.span_stop = s.span_start
            advanced(C) ==
                State(C.rule, C.span_start, s.span_stop, C.dot_position + 1,
                      C.previous_states \o <<s>>)
        IN  /\ ~incomplete(s)
            /\ OthersUnchanged(at)
            /\ IsPrefix(before, after)
            /\ \A k \in added :
                  /\ \E m \in 1..Len(source) :
                        fits(source[m]) /\ after[k] = advanced(source[m])
                  /\ ~InAgenda(after[k], SubSeq(after, 1, k - 1))
            /\ Len(after) <= MaxAgenda =>
                  \A m \in 1..Len(source) :
                      fits(source[m]) => InAgenda(advanced(source[m]), after)
      ]_vars

\* _complete has acted on a state that spans tokens: two states that were
\* waiting for it where it starts are still there and have their advanced
\* copies at the end of the agenda being traversed.
C17_Witness ==
    /\ pc = "loop"
    /\ j >= 1
    /\ LET s     == Agenda(chart, i)[j]
           from  == Agenda(chart, s.span_start)
           after == Agenda(chart, i)
       IN  /\ ~incomplete(s)
           /\ s.span_start < s.span_stop
           /\ \E k, l \in 1..Len(from) :
                 /\ k < l
                 /\ next_category(from[k]) = s.rule.lhs
                 /\ next_category(from[l]) = s.rule.lhs
                 /\ Len(after) >= 2
                 /\ after[Len(after) - 1] =
                        State(from[k].rule, from[k].span_start, s.span_stop,
                              from[k].dot_position + 1,
                              from[k].previous_states \o <<s>>)
                 /\ after[Len(after)] =
                        State(from[l].rule, from[l].span_start, s.span_stop,
                              from[l].dot_position + 1,
                              from[l].previous_states \o <<s>>)

-----------------------------------------------------------------------------
(* C18 *)

\* The steps parse owes a chart: for each position in ascending order, for
\* each state of its agenda in agenda order, predict then scan if the state
\* is incomplete and complete if it is complete.
StepsOfState(state, position) ==
    IF incomplete(state)
    THEN <<[position |-> position, state |-> state, step |-> "predict"],
           [position |-> position, state |-> state, step |-> "scan"]>>
    ELSE <<[position |-> position, state |-> state, step |-> "complete"]>>

RECURSIVE StepsOfAgenda(_, _, _)
StepsOfAgenda(agenda, position, k) ==
    IF k > Len(agenda) THEN <<>>
    ELSE StepsOfState(agenda[k], position) \o StepsOfAgenda(agenda, position, k + 1)

RECURSIVE StepsOfChart(_, _)
StepsOfChart(ch, position) ==
    IF position >= Len(ch._chart) THEN <<>>
    ELSE StepsOfAgenda(Agenda(ch, position), position, 1)
             \o StepsOfChart(ch, position + 1)

\* C18: the steps parse has taken are at every moment the first of the
\* steps it owes the chart, and when it returns they are all of them: every
\* state of every agenda, those appended while the agenda was traversed
\* too, was processed exactly once, in agenda order, and every state of
\* position i before any state of position i + 1.
C18_EveryStateOnceInOrder ==
    /\ pc \in {"loop", "scan", "done", "raised", "exhausted"} =>
           IsPrefix(processed, StepsOfChart(chart, 0))
    /\ pc = "done" => processed = StepsOfChart(chart, 0)

\* parse has returned from a chart with an agenda, not the first, whose
\* later states were appended by the processing of its earlier ones.
C18_Witness ==
    /\ pc = "done"
    /\ \E k, l \in 1..Len(processed) :
          /\ k < l
          /\ processed[k].position = 1
          /\ processed[l].position = 1
          /\ processed[k].step = "complete"
          /\ processed[l].step = "complete"
          /\ processed[k].state \in
                 {processed[l].state.previous_states[m] :
                      m \in 1..Len(processed[l].state.previous_states)}

-----------------------------------------------------------------------------
(* C19 *)

\* The states of all agendas of a chart.
StatesOf(ch) ==
    UNION {{ch._chart[p][k] : k \in 1..Len(ch._chart[p])} : p \in 1..Len(ch._chart)}

\* C19: every state in the chart has 0 <= span_start <= span_stop and
\* 0 <= dot_position <= len(rule.rhs).
C19_SpansAndDotsInRange ==
    \A state \in StatesOf(chart) :
        /\ 0 <= state.span_start
        /\ state.span_start <= state.span_stop
        /\ 0 <= state.dot_position
        /\ state.dot_position <= Len(state.rule.rhs)

\* The same for the grammars whose preterminal rules have one item each and
\* whose categories are not the empty string.
C19_InRangeForPlainGrammars ==
    (/\ \A k \in 1..Len(grammar._grammar) :
           /\ grammar._grammar[k].preterminal => Len(grammar._grammar[k].rhs) = 1
           /\ grammar._grammar[k].lhs # ""
           /\ \A m \in 1..Len(grammar._grammar[k].rhs) :
                 grammar._grammar[k].rhs[m] # ""
     /\ grammar._distinguished_symbol # "")
        => C19_SpansAndDotsInRange

-----------------------------------------------------------------------------
(* C20 *)

\* C20: the chart of a parse has len(tokens) + 1 agendas from its
\* construction on, and every step of the parse leaves what an agenda held
\* as a prefix of what it holds: states are appended, never removed,
\* reordered or replaced.
C20_AgendasOnlyGrow ==
    [][/\ Len(chart'._chart) = Len(words') + 1
       /\ pc \in {"loop", "scan"} =>
             \A p \in 0..Len(words) :
                 IsPrefix(Agenda(chart, p), Agenda(chart', p))]_vars

\* A parse of two tokens or more has returned, and every agenda of its
\* chart has states, the second one three or more.
C20_Witness ==
    /\ pc = "done"
    /\ Len(words) >= 2
    /\ Len(chart._chart) = Len(words) + 1
    /\ \A p \in 0..Len(words) : Agenda(chart, p) # <<>>
    /\ Len(Agenda(chart, 1)) >= 3

-----------------------------------------------------------------------------
(* C21 *)

\* The states of the final agenda that are complete and whose rule is the
\* augmenting rule _GAMMA -> [start symbol], in agenda order.
CompleteAugmentingStates ==
    SelectSeq(Agenda(chart, Len(words)),
              LAMBDA state :
                  /\ ~incomplete(state)
                  /\ RuleEq(state.rule, AugmentingState.rule))

\* C21: parse returns one tree for each complete state of the augmenting
\* rule in the final agenda, in agenda order, and nothing else; each of
\* these states spans the whole input.
C21_OneTreePerFullParse ==
    pc = "done" =>
        /\ Len(result) = Len(CompleteAugmentingStates)
        /\ \A k \in 1..Len(CompleteAugmentingStates) :
              /\ k <= Len(result)
              /\ result[k] = Unwrap(_tree_from_parse(CompleteAugmentingStates[k]))
              /\ CompleteAugmentingStates[k].span_start = 0
              /\ CompleteAugmentingStates[k].span_stop = Len(words)

\* The same for the grammars in which no rule uses the label _GAMMA.
C21_OneTreePerFullParseNoGamma ==
    ~UsesGamma => C21_OneTreePerFullParse

-----------------------------------------------------------------------------
(* C22 *)

\* C22 as stated: from a state of the chart to each of its previous states
\* the width of the span strictly decreases or the dot_position strictly
\* increases.
C22_WidthOrDotMeasure ==
    \A s \in StatesOf(chart) :
        \A m \in 1..Len(s.previous_states) :
            LET t == s.previous_states[m]
            IN  \/ t.span_stop - t.span_start < s.span_stop - s.span_start
                \/ t.dot_position > s.dot_position

\* t is a state of the chart, in the agenda of its span_stop, and that is an
\* agenda before position, or it is the same agenda and t is before place.
EnqueuedBefore(t, position, place) ==
    /\ t.span_stop \in 0..position
    /\ \E k \in 1..Len(Agenda(chart, t.span_stop)) :
          /\ Agenda(chart, t.span_stop)[k] = t
          /\ t.span_stop = position => k < place

\* C22: every previous state of a state of the chart is itself in the
\* chart and was enqueued before the state that points to it, in an earlier
\* agenda or earlier in the same agenda: the backpointers have no cycle and
\* _tree_from_parse ends on every state of the chart.
C22_BackpointersGoBack ==
    pc \notin {"ready", "chart", "two"} =>
        \A p \in 0..Len(words) :
            \A k \in 1..Len(Agenda(chart, p)) :
                \A m \in 1..Len(Agenda(chart, p)[k].previous_states) :
                    EnqueuedBefore(Agenda(chart, p)[k].previous_states[m], p, k)

\* parse has returned trees, and a state of its chart points to a state of
\* the same span and the same dot_position, in the same agenda.
C22_Witness ==
    /\ pc = "done"
    /\ result # <<>>
    /\ \E s \in StatesOf(chart) :
          \E m \in 1..Len(s.previous_states) :
              /\ s.previous_states[m].span_start = s.span_start
              /\ s.previous_states[m].span_stop = s.span_stop
              /\ s.previous_states[m].dot_position = s.dot_position
              /\ s.span_start < s.span_stop

-----------------------------------------------------------------------------
(* C23 *)

\* Every state of the agenda of position p has span_stop = p and
\* 0 <= span_start <= p <= len(tokens).
StatesAreWhereTheyStop ==
    \A p \in 0..(Len(chart._chart) - 1) :
        \A k \in 1..Len(Agenda(chart, p)) :
            /\ Agenda(chart, p)[k].span_stop = p
            /\ 0 <= Agenda(chart, p)[k].span_start
            /\ Agenda(chart, p)[k].span_start <= p
            /\ p <= Len(words)

\* C23: every state of the agenda of position p has span_stop = p and
\* 0 <= span_start <= p <= len(tokens), and parse raises no index error,
\* EarleyChartIndexError or other.
C23_PositionsInRangeNoIndexError ==
    pc \notin {"ready", "chart", "two"} =>
        /\ StatesAreWhereTheyStop
        /\ raised \notin {"IndexError", "EarleyChartIndexError"}

\* The part of C23 about the chart: the states are where they stop, and the
\* positions the next step of parse looks up and enqueues at are in range.
C23_ChartPositionsInRange ==
    pc \in {"loop", "scan", "done", "raised", "exhausted"} =>
        /\ StatesAreWhereTheyStop
        /\ i \in 0..Len(words)
        /\ ~__getitem__Raises(chart, i)
        /\ (pc \in {"loop", "scan"} /\ j < Len(Agenda(chart, i))) =>
              /\ Current.span_start \in 0..Len(words)
              /\ Current.span_stop \in 0..Len(words)
              /\ ScanRaises(Current, chart) \/ _scan(Current, chart) = chart
                    \/ Current.span_stop + 1 \in 0..Len(words)

-----------------------------------------------------------------------------
(* C24 *)

\* C24: while parse is at position i, a step changes no agenda other than
\* those of i and i + 1 -- predict and complete append at i, scan at i + 1 --
\* so the agendas before i stay as the loop left them, and the agendas
\* after i + 1 are empty.
C24_EnqueueOnlyHereAndNext ==
    [][(pc \in {"loop", "scan"}) =>
        /\ \A p \in 0..Len(words) :
              (p < i \/ p > i + 1) => Agenda(chart', p) = Agenda(chart, p)
        /\ (pc = "loop" /\ i < Len(words)) =>
              Agenda(chart', i + 1) = Agenda(chart, i + 1)
        /\ pc = "scan" => Agenda(chart', i) = Agenda(chart, i)
        /\ \A p \in 0..Len(words) : p > i + 1 => Len(Agenda(chart', p)) = 0
      ]_vars

\* parse is past position 1 and has just completed a state that starts two
\* positions or more before the one it is at, and the advanced state is the
\* last of the agenda being traversed.
C24_Witness ==
    /\ pc = "loop"
    /\ i >= 2
    /\ i < Len(words)
    /\ processed # <<>>
    /\ LET last == processed[Len(processed)]
           here == Agenda(chart, i)
       IN  /\ last.step = "complete"
           /\ last.position = i
           /\ last.state.span_start + 2 <= i
           /\ here[Len(here)].previous_states # <<>>
           /\ here[Len(here)].previous_states[Len(here[Len(here)].previous_states)]
                  = last.state
           /\ Agenda(chart, i + 1) = <<>>

-----------------------------------------------------------------------------
(* C25 *)

\* The previous states of a state mirror the part of its rule before the
\* dot: one per symbol, each complete and labelled by that symbol, and their
\* spans tile the span of the state.
MirrorsItsRule(state) ==
    LET previous_states == state.previous_states
        n               == Len(previous_states)
    IN  /\ n = state.dot_position
        /\ \A k \in 1..n :
              /\ ~incomplete(previous_states[k])
              /\ k <= Len(state.rule.rhs)
              /\ previous_states[k].rule.lhs = state.rule.rhs[k]
        /\ n > 0 => /\ previous_states[1].span_start = state.span_start
                    /\ previous_states[n].span_stop = state.span_stop
        /\ \A k \in 1..(n - 1) :
              previous_states[k].span_stop = previous_states[k + 1].span_start

\* The states a step has appended to the agenda of a position.
AddedAt(position) ==
    LET before == Agenda(chart, position)
        after  == Agenda(chart', position)
    IN  {after[k] : k \in (Len(before) + 1)..Len(after)}

\* The seed, and the states appended by a predict or a scan step, have no
\* previous states.
MadeWithoutPrevious ==
    /\ (pc = "ready" /\ pc' = "loop") =>
          \A state \in StatesOf(chart') : state.previous_states = <<>>
    /\ (pc = "loop" /\ pc' = "scan") =>
          \A state \in AddedAt(i) : state.previous_states = <<>>
    /\ (pc = "scan" /\ pc' = "loop" /\ i < Len(words)) =>
          \A state \in AddedAt(i + 1) : state.previous_states = <<>>

\* The sort of _tree_from_parse leaves the previous states of every state of
\* the chart in the order they have.
SortNeverReorders ==
    \A state \in StatesOf(chart) :
        Sorted(state.previous_states) = state.previous_states

\* C25: every state in the chart whose rule is not preterminal has as many
\* previous states as its dot position, the k-th a complete state of the
\* k-th category of the rule's right-hand side, with contiguous spans from
\* span_start to span_stop; hence the previous states are in ascending
\* span_start order and the sort of _tree_from_parse does not reorder them.
C25_PreviousStatesMirrorRule ==
    \A state \in StatesOf(chart) :
        ~state.rule.preterminal =>
            /\ MirrorsItsRule(state)
            /\ Sorted(state.previous_states) = state.previous_states

\* C25, second sentence: states created by seeding, predict or scan have
\* empty previous_states.
C25_MadeWithoutPrevious == [][MadeWithoutPrevious]_vars

\* C25, last sentence alone, for every state of every chart.
C25_SortNeverReorders == SortNeverReorders

\* C25, first sentence, for the grammars none of whose categories is the
\* empty string.
C25_MirrorRuleWithoutEmptyCategory ==
    (\A k \in 1..Len(grammar._grammar) : grammar._grammar[k].lhs # "")
        => \A state \in StatesOf(chart) :
               ~state.rule.preterminal => MirrorsItsRule(state)

-----------------------------------------------------------------------------
(* C26 *)

\* The rule handed to add_rule is equal, by Rule.__eq__, to a rule the
\* grammar had before.
AddedAnEqualRule ==
    /\ call.op = "add_rule"
    /\ \E k \in 1..(Len(grammar._grammar) - 1) : RuleEq(grammar._grammar[k], call.rule)

\* C26: adding to a grammar a rule equal to one already present, whatever
\* its probability, does not change the result of parse: the call after
\* add_rule ends as the call before it did, with the same trees.
C26_EqualRuleChangesNothing ==
    (Len(invocation) = 2 /\ AddedAnEqualRule) => invocation[2] = invocation[1]

\* A rule with another probability was added to a grammar that had an equal
\* one; both calls returned trees, and the added rule's category is in them.
C26_Witness ==
    /\ Len(invocation) = 2
    /\ AddedAnEqualRule
    /\ \A k \in 1..(Len(grammar._grammar) - 1) :
          RuleEq(grammar._grammar[k], call.rule)
              => grammar._grammar[k].probability # call.rule.probability
    /\ invocation[2].pc = "done"
    /\ Len(invocation[2].result) >= 2
    /\ \A k \in 1..Len(invocation[2].result) :
          call.rule.lhs \in Labels(invocation[2].result[k])

-----------------------------------------------------------------------------
(* C27 *)

\* C27: the trees one call of parse returns are pairwise distinct.
C27_TreesPairwiseDistinct ==
    pc = "done" =>
        \A k, l \in 1..Len(result) : k # l => result[k] # result[l]

\* C27 for the grammars in which no two preterminal rules of one category
\* have different right-hand sides that join to the same token.
C27_DistinctWhenJoinsDiffer ==
    (\A k, l \in 1..Len(grammar._grammar) :
        (/\ grammar._grammar[k].preterminal
         /\ grammar._grammar[l].preterminal
         /\ grammar._grammar[k].lhs = grammar._grammar[l].lhs
         /\ ~JoinRaises(grammar._grammar[k].rhs)
         /\ ~JoinRaises(grammar._grammar[l].rhs)
         /\ Join(grammar._grammar[k].rhs) = Join(grammar._grammar[l].rhs))
            => grammar._grammar[k].rhs = grammar._grammar[l].rhs)
        => C27_TreesPairwiseDistinct

====
